---- MODULE Spec2Model ----
(***************************************************************************)
(* Model of the ledger engine of bankgui.py: the Account variants, the     *)
(* Customer, and the Bank (in-memory store, its operations, and the two    *)
(* JSON documents it loads from and saves to).                             *)
(*                                                                         *)
(* Money.  The program keeps balances, amounts and overdraft limits as     *)
(* floats.  The model keeps them as exact integers counted in 1/Unit of a  *)
(* currency unit, Unit = 100^MaxInterest, and an interest rate as an       *)
(* integer number of hundredths (0.01 is 1, 0.5 is 50).  Every amount that *)
(* enters the model is a whole number of currency units, and at most       *)
(* MaxInterest interest runs happen, so balance * rate / 100 is always an  *)
(* exact integer: the arithmetic of the model is the arithmetic of the     *)
(* program without rounding.                                               *)
(***************************************************************************)
EXTENDS Integers, Sequences, FiniteSets, TLC

VARIABLES
    _customers,      \* Bank._customers : customer_id -> Customer
    _accounts,       \* Bank._accounts  : account_number -> Account
    customer_file,   \* the document at Bank._customer_file
    account_file,    \* the document at Bank._account_file
    interest_runs,   \* number of apply_all_interest calls that accrued interest
    last,            \* the last call of a Bank operation: name, arguments, return value
    created          \* history: for each watched customer_id, whether create_account
                     \* has returned an account for it, and whether before or
                     \* since the last clear_all_data

vars == <<_customers, _accounts, customer_file, account_file, interest_runs, last, created>>

----------------------------------------------------------------------------
(* Bounds of the model *)

MaxInterest == 1         \* interest runs in one behaviour
MaxBalance == 1          \* deposits stop when a balance would exceed this many units
MaxAmount == 1           \* largest amount / initial balance passed by a caller, in units
MaxRefs == 3             \* longest list of account references in a customer document

Unit == 100 ^ MaxInterest

----------------------------------------------------------------------------
(* Program constants *)

DefaultInterestRate == 1     \* 0.01, in hundredths
DefaultOverdraftLimit == 0   \* 0.0

----------------------------------------------------------------------------
(* Input domains *)

Names == {"Alice"}
Addresses == {"1 Main St"}
\* str(random.randint(100000000000, 999999999999)): two of the possible draws
AccountNumbers == {"100000000000", "999999999999"}

EmptyDict == [k \in {} |-> 0]

\* dict.get(key, default)
DictGet(d, key, default) == IF key \in DOMAIN d THEN d[key] ELSE default

\* str.lower() on the account type strings
Lower(s) ==
    CASE s = "Checking" -> "checking"
      [] s = "Savings" -> "savings"
      [] OTHER -> s

----------------------------------------------------------------------------
(* Account variants *)

SavingsAccount(account_number, account_holder_id, initial_balance, interest_rate) ==
    [class |-> "SavingsAccount",
     _account_number |-> account_number,
     _account_holder_id |-> account_holder_id,
     _balance |-> initial_balance,
     _interest_rate |-> IF interest_rate >= 0 THEN interest_rate ELSE DefaultInterestRate]

CheckingAccount(account_number, account_holder_id, initial_balance, overdraft_limit) ==
    [class |-> "CheckingAccount",
     _account_number |-> account_number,
     _account_holder_id |-> account_holder_id,
     _balance |-> initial_balance,
     _overdraft_limit |-> IF overdraft_limit >= 0 THEN overdraft_limit ELSE DefaultOverdraftLimit]

\* A method call on an account: the return value and the account afterwards
Returned(value, self) == [ret |-> value, self |-> self]

\* Mutant: the setter stores a negative rate
SavingsAccount_interest_rate_setter_AcceptsNegative(self, value) ==
    Returned("None", [self EXCEPT !._interest_rate = value])

\* @interest_rate.setter: raises ValueError on a negative value
SavingsAccount_interest_rate_setter(self, value) ==
    IF value < 0
    THEN Returned("ValueError", self)
    ELSE Returned("None", [self EXCEPT !._interest_rate = value])

\* @overdraft_limit.setter: raises ValueError on a negative value
CheckingAccount_overdraft_limit_setter(self, value) ==
    IF value < 0
    THEN Returned("ValueError", self)
    ELSE Returned("None", [self EXCEPT !._overdraft_limit = value])

\* Mutant: nothing is deposited into an account that holds nothing
SavingsAccount_deposit_NeedsFunds(self, amount) ==
    IF amount <= 0 \/ self._balance <= 0
    THEN Returned(FALSE, self)
    ELSE Returned(TRUE, [self EXCEPT !._balance = @ + amount])

SavingsAccount_deposit(self, amount) ==
    IF amount <= 0
    THEN Returned(FALSE, self)
    ELSE Returned(TRUE, [self EXCEPT !._balance = @ + amount])

\* Mutant: the balance is debited before the balance check
SavingsAccount_withdraw_DebitsFirst(self, amount) ==
    IF amount <= 0
    THEN Returned(FALSE, self)
    ELSE IF amount > self._balance
         THEN Returned(FALSE, [self EXCEPT !._balance = @ - amount])
         ELSE Returned(TRUE, [self EXCEPT !._balance = @ - amount])

SavingsAccount_withdraw(self, amount) ==
    IF amount <= 0 \/ amount > self._balance
    THEN Returned(FALSE, self)
    ELSE Returned(TRUE, [self EXCEPT !._balance = @ - amount])

\* Mutant: the interest replaces the balance
SavingsAccount_apply_interest_Replaces(self) ==
    [self EXCEPT !._balance = (@ * self._interest_rate) \div 100]

SavingsAccount_apply_interest(self) ==
    [self EXCEPT !._balance = @ + (@ * self._interest_rate) \div 100]

\* Mutant: an amount of 0 is accepted
CheckingAccount_deposit_AcceptsZero(self, amount) ==
    IF amount < 0
    THEN Returned(FALSE, self)
    ELSE Returned(TRUE, [self EXCEPT !._balance = @ + amount])

CheckingAccount_deposit(self, amount) ==
    IF amount <= 0
    THEN Returned(FALSE, self)
    ELSE Returned(TRUE, [self EXCEPT !._balance = @ + amount])

\* Mutant: the overdraft limit is not taken into account
CheckingAccount_withdraw_NoOverdraft(self, amount) ==
    IF amount <= 0
    THEN Returned(FALSE, self)
    ELSE IF (self._balance - amount) < 0
         THEN Returned(FALSE, self)
         ELSE Returned(TRUE, [self EXCEPT !._balance = @ - amount])

\* Mutant: a withdrawal uses up the overdraft limit
CheckingAccount_withdraw_ConsumesLimit(self, amount) ==
    IF amount <= 0
    THEN Returned(FALSE, self)
    ELSE IF (self._balance - amount) < -self._overdraft_limit
         THEN Returned(FALSE, self)
         ELSE Returned(TRUE, [self EXCEPT !._balance = @ - amount,
                                          !._overdraft_limit = 0])

CheckingAccount_withdraw(self, amount) ==
    IF amount <= 0
    THEN Returned(FALSE, self)
    ELSE IF (self._balance - amount) < -self._overdraft_limit
         THEN Returned(FALSE, self)
         ELSE Returned(TRUE, [self EXCEPT !._balance = @ - amount])

\* Dynamic dispatch of the abstract methods
Account_deposit(self, amount) ==
    IF self.class = "SavingsAccount"
    THEN SavingsAccount_deposit(self, amount)
    ELSE CheckingAccount_deposit(self, amount)

Account_withdraw(self, amount) ==
    IF self.class = "SavingsAccount"
    THEN SavingsAccount_withdraw(self, amount)
    ELSE CheckingAccount_withdraw(self, amount)

\* Mutant: the 'type' of Account.to_dict is not overridden
SavingsAccount_to_dict_BaseType(self) ==
    [account_number |-> self._account_number,
     account_holder_id |-> self._account_holder_id,
     balance |-> self._balance,
     interest_rate |-> self._interest_rate,
     type |-> "account"]

SavingsAccount_to_dict(self) ==
    [account_number |-> self._account_number,
     account_holder_id |-> self._account_holder_id,
     balance |-> self._balance,
     interest_rate |-> self._interest_rate,
     type |-> "savings"]

CheckingAccount_to_dict(self) ==
    [account_number |-> self._account_number,
     account_holder_id |-> self._account_holder_id,
     balance |-> self._balance,
     overdraft_limit |-> self._overdraft_limit,
     type |-> "checking"]

Account_to_dict(self) ==
    IF self.class = "SavingsAccount"
    THEN SavingsAccount_to_dict(self)
    ELSE CheckingAccount_to_dict(self)

----------------------------------------------------------------------------
(* Customer *)

Customer(customer_id, name, address) ==
    [_customer_id |-> customer_id,
     _name |-> name,
     _address |-> address,
     _account_numbers |-> <<>>]

InSeq(x, s) == \E i \in 1..Len(s) : s[i] = x

\* Mutant: the new number takes the place of the numbers listed so far
Customer_add_account_number_Replaces(self, account_number) ==
    IF ~InSeq(account_number, self._account_numbers)
    THEN [self EXCEPT !._account_numbers = <<account_number>>]
    ELSE self

Customer_add_account_number(self, account_number) ==
    IF ~InSeq(account_number, self._account_numbers)
    THEN [self EXCEPT !._account_numbers = Append(@, account_number)]
    ELSE self

\* list.remove takes out the first occurrence
Customer_remove_account_number(self, account_number) ==
    IF InSeq(account_number, self._account_numbers)
    THEN LET i == CHOOSE k \in 1..Len(self._account_numbers) :
                      /\ self._account_numbers[k] = account_number
                      /\ \A j \in 1..(k - 1) : self._account_numbers[j] # account_number
         IN  [self EXCEPT !._account_numbers =
                 SubSeq(@, 1, i - 1) \o SubSeq(@, i + 1, Len(@))]
    ELSE self

\* @address.setter
Customer_address_setter(self, value) == [self EXCEPT !._address = value]

Customer_to_dict(self) ==
    [customer_id |-> self._customer_id,
     name |-> self._name,
     address |-> self._address,
     account_numbers |-> self._account_numbers]

----------------------------------------------------------------------------
(* The two documents of the durable record *)

\* writable: open(file, 'w') succeeds; it raises OSError on a file that is not
AbsentFile == [exists |-> FALSE, parsable |-> FALSE, data |-> EmptyDict, writable |-> TRUE]
CorruptFile == [exists |-> TRUE, parsable |-> FALSE, data |-> EmptyDict, writable |-> TRUE]
JsonFile(data) == [exists |-> TRUE, parsable |-> TRUE, data |-> data, writable |-> TRUE]

RECURSIVE AddAccountNumbers(_, _)
\* for acc_num in cust_dict.get('account_numbers', []): customer.add_account_number(acc_num)
AddAccountNumbers(customer, acc_nums) ==
    IF acc_nums = <<>>
    THEN customer
    ELSE AddAccountNumbers(Customer_add_account_number(customer, Head(acc_nums)),
                           Tail(acc_nums))

LoadCustomer(cust_dict) ==
    AddAccountNumbers(
        Customer(cust_dict.customer_id, cust_dict.name, cust_dict.address),
        DictGet(cust_dict, "account_numbers", <<>>))

LoadCustomers(file) ==
    IF file.exists /\ file.parsable
    THEN [cust_id \in DOMAIN file.data |-> LoadCustomer(file.data[cust_id])]
    ELSE EmptyDict

\* Mutant: every entry that has a type is loaded
RecognizedType_AnyType(acc_dict) ==
    "type" \in DOMAIN acc_dict

RecognizedType(acc_dict) ==
    DictGet(acc_dict, "type", "None") \in {"savings", "checking"}

\* Mutant: the stored interest rate and overdraft limit are not read
LoadAccount_DefaultParameters(acc_dict) ==
    IF acc_dict.type = "savings"
    THEN SavingsAccount(acc_dict.account_number, acc_dict.account_holder_id,
                        acc_dict.balance, DefaultInterestRate)
    ELSE CheckingAccount(acc_dict.account_number, acc_dict.account_holder_id,
                         acc_dict.balance, DefaultOverdraftLimit)

LoadAccount(acc_dict) ==
    IF acc_dict.type = "savings"
    THEN SavingsAccount(acc_dict.account_number, acc_dict.account_holder_id,
                        acc_dict.balance,
                        DictGet(acc_dict, "interest_rate", DefaultInterestRate))
    ELSE CheckingAccount(acc_dict.account_number, acc_dict.account_holder_id,
                         acc_dict.balance,
                         DictGet(acc_dict, "overdraft_limit", DefaultOverdraftLimit))

LoadAccounts(file) ==
    IF file.exists /\ file.parsable
    THEN [acc_num \in {n \in DOMAIN file.data : RecognizedType(file.data[n])} |->
             LoadAccount(file.data[acc_num])]
    ELSE EmptyDict

\* Mutant: no reference is dropped
FixRelationships_KeepAll(customers, accounts) == customers

\* "Fix relationships": keep the references that name a loaded account
FixRelationships(customers, accounts) ==
    [cid \in DOMAIN customers |->
        [customers[cid] EXCEPT !._account_numbers =
            SelectSeq(@, LAMBDA acc : acc \in DOMAIN accounts)]]

\* The keys _load_data reads with cust_dict[...] and acc_dict[...]; the other
\* keys are read with .get
CustomerKeys == {"customer_id", "name", "address"}

AccountKeys == {"account_number", "account_holder_id", "balance"}

\* What _load_data raises: it catches FileNotFoundError and JSONDecodeError
\* only, so a missing key of a customer entry, or of an account entry whose
\* type is recognized, leaves it as KeyError; an entry of another type is
\* skipped before any of its keys is read
LoadRaises(cfile, afile) ==
    IF \/ /\ cfile.exists /\ cfile.parsable
          /\ \E cust_id \in DOMAIN cfile.data :
                 ~(CustomerKeys \subseteq DOMAIN cfile.data[cust_id])
       \/ /\ afile.exists /\ afile.parsable
          /\ \E acc_num \in DOMAIN afile.data :
                 /\ RecognizedType(afile.data[acc_num])
                 /\ ~(AccountKeys \subseteq DOMAIN afile.data[acc_num])
    THEN "KeyError"
    ELSE "None"

\* Bank._load_data: the store a Bank holds after loading the two documents
_load_data(cfile, afile) ==
    LET accounts == LoadAccounts(afile)
    IN  [customers |-> FixRelationships(LoadCustomers(cfile), accounts),
         accounts |-> accounts]

\* Bank._save_data: the two documents written for a store
_save_data(customers, accounts) ==
    [customer_file |->
         JsonFile([cid \in DOMAIN customers |-> Customer_to_dict(customers[cid])]),
     account_file |->
         JsonFile([acc_num \in DOMAIN accounts |-> Account_to_dict(accounts[acc_num])])]

----------------------------------------------------------------------------
(* Durable records a Bank may find when it is constructed *)

DanglingCustomers ==
    JsonFile("C1" :> [customer_id |-> "C1", name |-> "Alice", address |-> "1 Main St",
                      account_numbers |->
                          <<"100000000000", "999999999999", "100000000000">>])

OneRecognizedAccount ==
    JsonFile(("100000000000" :>
                 [account_number |-> "100000000000", account_holder_id |-> "C1",
                  balance |-> 1 * Unit, type |-> "savings"])
             @@ ("999999999999" :>
                 [account_number |-> "999999999999", account_holder_id |-> "C1",
                  balance |-> 0, type |-> "account"]))

InitialRecords ==
    { <<AbsentFile, AbsentFile>>,
      <<DanglingCustomers, OneRecognizedAccount>>,
      <<DanglingCustomers, CorruptFile>> }

----------------------------------------------------------------------------
(* Bank *)

\* _save_data raises when it cannot open one of the two files for writing
SaveRaises == ~customer_file.writable \/ ~account_file.writable

\* The call recorded in last.  Every operation calls _save_data as its last
\* statement before it returns, and catches nothing: when _save_data raises,
\* the caller gets the OSError instead of the return value.
Call(op, args, ret, saves) ==
    [op |-> op, args |-> args,
     ret |-> IF saves > 0 /\ SaveRaises THEN "OSError" ELSE ret,
     saves |-> saves]

\* self._save_data() at the end of an operation that leaves the store as given:
\* the customer file is opened and written, then the account file; an open
\* that raises leaves that file and every later one as it was
Save(customers, accounts) ==
    LET saved == _save_data(customers, accounts)
    IN  /\ customer_file' = IF customer_file.writable
                            THEN saved.customer_file ELSE customer_file
        /\ account_file' = IF customer_file.writable /\ account_file.writable
                           THEN saved.account_file ELSE account_file

\* Bank.__init__
Init ==
    \E record \in InitialRecords :
        /\ customer_file = record[1]
        /\ account_file = record[2]
        /\ _customers = _load_data(record[1], record[2]).customers
        /\ _accounts = _load_data(record[1], record[2]).accounts
        /\ interest_runs = 0
        /\ last = Call("__init__", <<>>, "None", 0)
        /\ created = EmptyDict

\* Account documents a Bank may find under one number: with and without the
\* kind's parameter, with a negative parameter, with a type that _load_data
\* does not recognize (it compares without lower-casing), without a type
AccountEntries(n) ==
    { [account_number |-> n, account_holder_id |-> "C1", balance |-> 1 * Unit,
       type |-> "savings"],
      [account_number |-> n, account_holder_id |-> "C1", balance |-> 0,
       type |-> "savings", interest_rate |-> -1],
      [account_number |-> n, account_holder_id |-> "C1", balance |-> 0,
       type |-> "checking", overdraft_limit |-> -1 * Unit],
      [account_number |-> n, account_holder_id |-> "C1", balance |-> 0,
       type |-> "Savings", interest_rate |-> 50],
      [account_number |-> n, account_holder_id |-> "C1", balance |-> 0] }

AccountDocuments ==
    UNION { { d \in [S -> UNION {AccountEntries(n) : n \in S}] :
                \A n \in S : d[n] \in AccountEntries(n) } :
            S \in SUBSET AccountNumbers }

\* Reference lists of a customer document, duplicates and dangling ones included
ReferenceLists == UNION { [1..k -> AccountNumbers] : k \in 0..MaxRefs }

CustomerDocuments ==
    { "C1" :> [customer_id |-> "C1", name |-> "Alice", address |-> "1 Main St",
               account_numbers |-> refs] : refs \in ReferenceLists }
    \cup { "C1" :> [customer_id |-> "C1", name |-> "Alice", address |-> "1 Main St"] }

LoadRecords ==
    { <<JsonFile(c), JsonFile(a)>> : c \in CustomerDocuments, a \in AccountDocuments }

\* Documents with an entry that lacks a key: a customer without an address, a
\* savings account without a balance, an account of no recognized type without
\* a balance
IncompleteRecords ==
    { <<JsonFile("C1" :> [customer_id |-> "C1", name |-> "Alice"]),
        JsonFile(EmptyDict)>>,
      <<JsonFile(EmptyDict),
        JsonFile("100000000000" :>
                    [account_number |-> "100000000000", account_holder_id |-> "C1",
                     type |-> "savings"])>>,
      <<JsonFile("C1" :> [customer_id |-> "C1", name |-> "Alice",
                          address |-> "1 Main St",
                          account_numbers |-> <<"100000000000">>]),
        JsonFile("100000000000" :>
                    [account_number |-> "100000000000", account_holder_id |-> "C1",
                     type |-> "account"])>> }

\* Bank.__init__ on any of the records: when _load_data raises, the
\* constructor raises and no Bank comes into being
InitLoad ==
    \E record \in LoadRecords \cup IncompleteRecords :
        LET raised == LoadRaises(record[1], record[2])
        IN  /\ customer_file = record[1]
            /\ account_file = record[2]
            /\ _customers = IF raised = "None"
                            THEN _load_data(record[1], record[2]).customers
                            ELSE EmptyDict
            /\ _accounts = IF raised = "None"
                           THEN _load_data(record[1], record[2]).accounts
                           ELSE EmptyDict
            /\ interest_runs = 0
            /\ last = Call("__init__", <<>>, raised, 0)
            /\ created = EmptyDict

\* There is a Bank to call: its constructor returned
Constructed == ~(last.op = "__init__" /\ last.ret # "None")

\* Documents whose accounts carry a negative rate and a negative limit
NegativeParameters ==
    <<JsonFile("C1" :> [customer_id |-> "C1", name |-> "Alice", address |-> "1 Main St",
                        account_numbers |-> <<"100000000000", "999999999999">>]),
      JsonFile(("100000000000" :>
                   [account_number |-> "100000000000", account_holder_id |-> "C1",
                    balance |-> 1 * Unit, type |-> "savings", interest_rate |-> -1])
               @@ ("999999999999" :>
                   [account_number |-> "999999999999", account_holder_id |-> "C1",
                    balance |-> 0, type |-> "checking",
                    overdraft_limit |-> -1 * Unit]))>>

\* Bank.__init__ on no documents or on documents with negative parameters
InitParams ==
    \E record \in {<<AbsentFile, AbsentFile>>, NegativeParameters} :
        /\ customer_file = record[1]
        /\ account_file = record[2]
        /\ _customers = _load_data(record[1], record[2]).customers
        /\ _accounts = _load_data(record[1], record[2]).accounts
        /\ interest_runs = 0
        /\ last = Call("__init__", <<>>, "None", 0)
        /\ created = EmptyDict

\* os.remove may raise OSError; fault names the file whose removal raises
RemoveFaults == {"none", "customer_file", "account_file"}

\* Mutant: memory is cleared after the files are deleted, inside the try
clear_all_data_ClearsLast(fault) ==
    LET customer_raises == customer_file.exists /\ fault = "customer_file"
        account_raises == ~customer_raises /\ account_file.exists /\ fault = "account_file"
        raised == customer_raises \/ account_raises
    IN  /\ _customers' = IF raised THEN _customers ELSE EmptyDict
        /\ _accounts' = IF raised THEN _accounts ELSE EmptyDict
        /\ customer_file' = IF customer_file.exists /\ ~customer_raises
                            THEN AbsentFile ELSE customer_file
        /\ account_file' = IF account_file.exists /\ ~raised
                           THEN AbsentFile ELSE account_file
        /\ last' = Call("clear_all_data", <<>>, IF raised THEN "False" ELSE "True", 0)
        /\ UNCHANGED interest_runs

\* Bank.clear_all_data.  The removal of a file that does not exist is not
\* attempted, so it cannot raise; an exception of the first removal leaves
\* both files, one of the second leaves the account file.
clear_all_data(fault) ==
    LET customer_raises == customer_file.exists /\ fault = "customer_file"
        account_raises == ~customer_raises /\ account_file.exists /\ fault = "account_file"
        raised == customer_raises \/ account_raises
    IN  /\ _customers' = EmptyDict
        /\ _accounts' = EmptyDict
        /\ customer_file' = IF customer_file.exists /\ ~customer_raises
                            THEN AbsentFile ELSE customer_file
        /\ account_file' = IF account_file.exists /\ ~raised
                           THEN AbsentFile ELSE account_file
        /\ last' = Call("clear_all_data", <<>>, IF raised THEN "False" ELSE "True", 0)
        /\ UNCHANGED interest_runs

\* Mutant: the record of a customer_id already present is replaced
add_customer_Replaces(customer) ==
    /\ last' = Call("add_customer", <<customer>>,
                    IF customer._customer_id \in DOMAIN _customers THEN "False" ELSE "True",
                    1)
    /\ _customers' = (customer._customer_id :> customer) @@ _customers
    /\ UNCHANGED _accounts
    /\ Save(_customers', _accounts')
    /\ UNCHANGED interest_runs

add_customer(customer) ==
    /\ last' = Call("add_customer", <<customer>>,
                    IF customer._customer_id \in DOMAIN _customers THEN "False" ELSE "True",
                    IF customer._customer_id \in DOMAIN _customers THEN 0 ELSE 1)
    /\ IF customer._customer_id \in DOMAIN _customers
       THEN UNCHANGED <<_customers, _accounts, customer_file, account_file>>
       ELSE /\ _customers' = (customer._customer_id :> customer) @@ _customers
            /\ UNCHANGED _accounts
            /\ Save(_customers', _accounts')
    /\ UNCHANGED interest_runs

\* Mutant: a customer that still has account numbers is removed
remove_customer_IgnoresAccounts(customer_id) ==
    LET removable == customer_id \in DOMAIN _customers
    IN  /\ last' = Call("remove_customer", <<customer_id>>,
                        IF removable THEN "True" ELSE "False",
                        IF removable THEN 1 ELSE 0)
        /\ IF ~removable
           THEN UNCHANGED <<_customers, _accounts, customer_file, account_file>>
           ELSE /\ _customers' = [cid \in DOMAIN _customers \ {customer_id} |->
                                     _customers[cid]]
                /\ UNCHANGED _accounts
                /\ Save(_customers', _accounts')
        /\ UNCHANGED interest_runs

remove_customer(customer_id) ==
    LET removable == /\ customer_id \in DOMAIN _customers
                     /\ _customers[customer_id]._account_numbers = <<>>
    IN  /\ last' = Call("remove_customer", <<customer_id>>,
                        IF removable THEN "True" ELSE "False",
                        IF removable THEN 1 ELSE 0)
        /\ IF ~removable
           THEN UNCHANGED <<_customers, _accounts, customer_file, account_file>>
           ELSE /\ _customers' = [cid \in DOMAIN _customers \ {customer_id} |->
                                     _customers[cid]]
                /\ UNCHANGED _accounts
                /\ Save(_customers', _accounts')
        /\ UNCHANGED interest_runs

\* The account create_account builds for a recognized type
NewAccount(account_number, customer_id, account_type, initial_balance, kwargs) ==
    IF Lower(account_type) = "savings"
    THEN SavingsAccount(account_number, customer_id, initial_balance,
                        DictGet(kwargs, "interest_rate", DefaultInterestRate))
    ELSE CheckingAccount(account_number, customer_id, initial_balance,
                         DictGet(kwargs, "overdraft_limit", DefaultOverdraftLimit))

\* Mutant: the account is stored but not registered on the customer
create_account_Unregistered(customer_id, account_type, initial_balance, kwargs, account_number) ==
    LET created_account == /\ customer_id \in DOMAIN _customers
                           /\ Lower(account_type) \in {"savings", "checking"}
        account == NewAccount(account_number, customer_id, account_type,
                              initial_balance, kwargs)
    IN  /\ last' = Call("create_account",
                        <<customer_id, account_type, initial_balance, kwargs>>,
                        IF created_account THEN account_number ELSE "None",
                        IF created_account THEN 1 ELSE 0)
        /\ IF ~created_account
           THEN UNCHANGED <<_customers, _accounts, customer_file, account_file>>
           ELSE /\ _accounts' = (account_number :> account) @@ _accounts
                /\ UNCHANGED _customers
                /\ Save(_customers', _accounts')
        /\ UNCHANGED interest_runs

\* account_number is the draw of random.randint
create_account(customer_id, account_type, initial_balance, kwargs, account_number) ==
    LET accepted == /\ customer_id \in DOMAIN _customers
                   /\ Lower(account_type) \in {"savings", "checking"}
        account == NewAccount(account_number, customer_id, account_type,
                              initial_balance, kwargs)
    IN  /\ last' = Call("create_account",
                        <<customer_id, account_type, initial_balance, kwargs>>,
                        IF accepted THEN account_number ELSE "None",
                        IF accepted THEN 1 ELSE 0)
        /\ IF ~accepted
           THEN UNCHANGED <<_customers, _accounts, customer_file, account_file>>
           ELSE /\ _accounts' = (account_number :> account) @@ _accounts
                /\ _customers' =
                       [_customers EXCEPT ![customer_id] =
                           Customer_add_account_number(@, account_number)]
                /\ Save(_customers', _accounts')
        /\ UNCHANGED interest_runs

\* account.deposit / account.withdraw act on the object held by the store: what
\* the method does to it stays, whatever it returns.
deposit(account_number, amount) ==
    LET found == account_number \in DOMAIN _accounts
        result == Account_deposit(_accounts[account_number], amount)
        ok == found /\ result.ret
    IN  /\ last' = Call("deposit", <<account_number, amount>>,
                        IF ok THEN "True" ELSE "False", IF ok THEN 1 ELSE 0)
        /\ _accounts' = IF found
                        THEN [_accounts EXCEPT ![account_number] = result.self]
                        ELSE _accounts
        /\ UNCHANGED _customers
        /\ IF ok
           THEN Save(_customers', _accounts')
           ELSE UNCHANGED <<customer_file, account_file>>
        /\ UNCHANGED interest_runs

withdraw(account_number, amount) ==
    LET found == account_number \in DOMAIN _accounts
        result == Account_withdraw(_accounts[account_number], amount)
        ok == found /\ result.ret
    IN  /\ last' = Call("withdraw", <<account_number, amount>>,
                        IF ok THEN "True" ELSE "False", IF ok THEN 1 ELSE 0)
        /\ _accounts' = IF found
                        THEN [_accounts EXCEPT ![account_number] = result.self]
                        ELSE _accounts
        /\ UNCHANGED _customers
        /\ IF ok
           THEN Save(_customers', _accounts')
           ELSE UNCHANGED <<customer_file, account_file>>
        /\ UNCHANGED interest_runs

\* Mutant: the amount is credited to the source account
TransferOutcome_CreditsSource(accounts, from_acc_num, to_acc_num, amount) ==
    IF from_acc_num \notin DOMAIN accounts \/ to_acc_num \notin DOMAIN accounts
    THEN [ret |-> FALSE, accounts |-> accounts]
    ELSE IF amount <= 0
    THEN [ret |-> FALSE, accounts |-> accounts]
    ELSE LET w == Account_withdraw(accounts[from_acc_num], amount)
             withdrawn == [accounts EXCEPT ![from_acc_num] = w.self]
             d == Account_deposit(withdrawn[from_acc_num], amount)
             deposited == [withdrawn EXCEPT ![from_acc_num] = d.self]
         IN  IF ~w.ret
             THEN [ret |-> FALSE, accounts |-> withdrawn]
             ELSE [ret |-> d.ret, accounts |-> deposited]

\* Mutant: the deposit acts on the destination as it was before the withdrawal
TransferOutcome_SeparateObjects(accounts, from_acc_num, to_acc_num, amount) ==
    IF from_acc_num \notin DOMAIN accounts \/ to_acc_num \notin DOMAIN accounts
    THEN [ret |-> FALSE, accounts |-> accounts]
    ELSE IF amount <= 0
    THEN [ret |-> FALSE, accounts |-> accounts]
    ELSE LET w == Account_withdraw(accounts[from_acc_num], amount)
             withdrawn == [accounts EXCEPT ![from_acc_num] = w.self]
             d == Account_deposit(accounts[to_acc_num], amount)
             deposited == [withdrawn EXCEPT ![to_acc_num] = d.self]
             back == Account_deposit(deposited[from_acc_num], amount)
             compensated == [deposited EXCEPT ![from_acc_num] = back.self]
         IN  IF ~w.ret
             THEN [ret |-> FALSE, accounts |-> withdrawn]
             ELSE IF ~d.ret
                  THEN [ret |-> FALSE, accounts |-> compensated]
                  ELSE [ret |-> TRUE, accounts |-> deposited]

\* The accounts and the return value transfer_funds leaves behind.  from_account
\* and to_account are references into the store: when the two numbers are the
\* same they are one object, so the deposit acts on the withdrawn account.
TransferOutcome(accounts, from_acc_num, to_acc_num, amount) ==
    IF from_acc_num \notin DOMAIN accounts \/ to_acc_num \notin DOMAIN accounts
    THEN [ret |-> FALSE, accounts |-> accounts]
    ELSE IF amount <= 0
    THEN [ret |-> FALSE, accounts |-> accounts]
    ELSE LET w == Account_withdraw(accounts[from_acc_num], amount)
             withdrawn == [accounts EXCEPT ![from_acc_num] = w.self]
             d == Account_deposit(withdrawn[to_acc_num], amount)
             deposited == [withdrawn EXCEPT ![to_acc_num] = d.self]
             back == Account_deposit(deposited[from_acc_num], amount)
             compensated == [deposited EXCEPT ![from_acc_num] = back.self]
         IN  IF ~w.ret
             THEN [ret |-> FALSE, accounts |-> withdrawn]
             ELSE IF ~d.ret
                  THEN [ret |-> FALSE, accounts |-> compensated]
                  ELSE [ret |-> TRUE, accounts |-> deposited]

transfer_funds(from_acc_num, to_acc_num, amount) ==
    LET outcome == TransferOutcome(_accounts, from_acc_num, to_acc_num, amount)
    IN  /\ last' = Call("transfer_funds", <<from_acc_num, to_acc_num, amount>>,
                        IF outcome.ret THEN "True" ELSE "False",
                        IF outcome.ret THEN 1 ELSE 0)
        /\ _accounts' = outcome.accounts
        /\ UNCHANGED _customers
        /\ IF outcome.ret
           THEN Save(_customers', _accounts')
           ELSE UNCHANGED <<customer_file, account_file>>
        /\ UNCHANGED interest_runs

IsSavings(account) == account.class = "SavingsAccount"

apply_all_interest ==
    LET changed == \E n \in DOMAIN _accounts : IsSavings(_accounts[n])
    IN  /\ last' = Call("apply_all_interest", <<>>, "None", IF changed THEN 1 ELSE 0)
        /\ _accounts' = [n \in DOMAIN _accounts |->
                            IF IsSavings(_accounts[n])
                            THEN SavingsAccount_apply_interest(_accounts[n])
                            ELSE _accounts[n]]
        /\ UNCHANGED _customers
        /\ IF changed
           THEN /\ Save(_customers', _accounts')
                /\ interest_runs' = interest_runs + 1
           ELSE UNCHANGED <<customer_file, account_file, interest_runs>>

----------------------------------------------------------------------------
(* The callers: any operation, with any arguments of the given input domains *)

\* The history kept of the call recorded in last'
Track ==
    created' =
        IF last'.op = "create_account" /\ last'.ret # "None"
        THEN [cid \in DOMAIN created |->
                 IF cid = last'.args[1] THEN "since_clear" ELSE created[cid]]
        ELSE IF last'.op = "clear_all_data"
        THEN [cid \in DOMAIN created |->
                 IF created[cid] = "since_clear" THEN "before_clear" ELSE created[cid]]
        ELSE created

AddCustomer(cids) ==
    /\ \E cid \in cids, name \in Names, address \in Addresses :
           add_customer(Customer(cid, name, address))
    /\ Track

RemoveCustomer(cids) ==
    /\ \E cid \in cids : remove_customer(cid)
    /\ Track

\* types_kwargs: pairs (account_type, **kwargs)
CreateAccount(cids, types_kwargs, balances) ==
    /\ \E cid \in cids, tk \in types_kwargs, balance \in balances,
          number \in AccountNumbers :
           create_account(cid, tk[1], balance, tk[2], number)
    /\ Track

Deposit(amounts) ==
    /\ \E n \in AccountNumbers, amount \in amounts :
           /\ n \in DOMAIN _accounts => _accounts[n]._balance + amount <= MaxBalance * Unit
           /\ deposit(n, amount)
    /\ Track

Withdraw(amounts) ==
    /\ \E n \in AccountNumbers, amount \in amounts : withdraw(n, amount)
    /\ Track

TransferFunds(amounts) ==
    /\ \E a \in AccountNumbers, b \in AccountNumbers, amount \in amounts :
           /\ b \in DOMAIN _accounts => _accounts[b]._balance + amount <= MaxBalance * Unit
           /\ transfer_funds(a, b, amount)
    /\ Track

ApplyAllInterest ==
    /\ (\E n \in DOMAIN _accounts : IsSavings(_accounts[n])) => interest_runs < MaxInterest
    /\ apply_all_interest
    /\ Track

\* clear_all_data on storage that lets both files be removed
ClearAllData == clear_all_data("none") /\ Track

\* clear_all_data on storage where a removal may raise
ClearAllDataFaulty ==
    /\ \E fault \in RemoveFaults : clear_all_data(fault)
    /\ Track

----------------------------------------------------------------------------
(* Spec: two customers and both account kinds with their default parameters, *)
(* the amounts 0 and 1.                                                       *)

CustomerIds == {"C1", "C2"}
DefaultKinds ==
    {<<"savings", EmptyDict>>, <<"Checking", EmptyDict>>, <<"loan", EmptyDict>>}
UnitAmounts == {0, 1 * Unit}

Next ==
    \/ AddCustomer(CustomerIds)
    \/ RemoveCustomer(CustomerIds)
    \/ CreateAccount(CustomerIds, DefaultKinds, UnitAmounts)
    \/ Deposit(UnitAmounts)
    \/ Withdraw(UnitAmounts)
    \/ TransferFunds(UnitAmounts)
    \/ ApplyAllInterest
    \/ ClearAllData

Spec == Init /\ [][Next]_vars

----------------------------------------------------------------------------
(* SpecMoney: one customer, every kind of amount, initial balance, interest  *)
(* rate and overdraft limit a caller may pass.                                *)

OneCustomer == {"C1"}
Amounts == {a * Unit : a \in -1..MaxAmount}
InitialBalances == {a * Unit : a \in {-1, MaxAmount}}
InterestRates == {-1, 0, 50}
OverdraftLimits == {-1 * Unit, 1 * Unit}
TypesAndKwargs ==
    {<<"savings", EmptyDict>>, <<"Checking", EmptyDict>>, <<"loan", EmptyDict>>,
     <<"savings", [overdraft_limit |-> 1 * Unit]>>}
    \cup {<<"Savings", [interest_rate |-> r]>> : r \in InterestRates}
    \cup {<<"checking", [overdraft_limit |-> l]>> : l \in OverdraftLimits}

NextMoney ==
    \/ AddCustomer(OneCustomer)
    \/ RemoveCustomer(OneCustomer)
    \/ CreateAccount(OneCustomer, TypesAndKwargs, InitialBalances)
    \/ Deposit(Amounts)
    \/ Withdraw(Amounts)
    \/ TransferFunds(Amounts)
    \/ ApplyAllInterest
    \/ ClearAllData

SpecMoney == Init /\ [][NextMoney]_vars

----------------------------------------------------------------------------
(* SpecFault: one customer on storage where removing a file may fail.       *)

NextFault ==
    \/ AddCustomer(OneCustomer)
    \/ RemoveCustomer(OneCustomer)
    \/ CreateAccount(OneCustomer, DefaultKinds, UnitAmounts)
    \/ Deposit(UnitAmounts)
    \/ Withdraw(UnitAmounts)
    \/ TransferFunds(UnitAmounts)
    \/ ApplyAllInterest
    \/ ClearAllDataFaulty

SpecFault == Init /\ [][NextFault]_vars

----------------------------------------------------------------------------
(* SpecParams: a Bank constructed on documents with negative parameters,    *)
(* and a caller that also assigns the rate and the limit of accounts the    *)
(* Bank handed out.                                                         *)

\* account.interest_rate = value on an account of the store; nothing is saved
set_interest_rate(account_number, value) ==
    LET result == SavingsAccount_interest_rate_setter(_accounts[account_number], value)
    IN  /\ _accounts' = [_accounts EXCEPT ![account_number] = result.self]
        /\ last' = Call("interest_rate", <<account_number, value>>, result.ret, 0)
        /\ UNCHANGED <<_customers, customer_file, account_file, interest_runs>>

\* account.overdraft_limit = value on an account of the store; nothing is saved
set_overdraft_limit(account_number, value) ==
    LET result == CheckingAccount_overdraft_limit_setter(_accounts[account_number], value)
    IN  /\ _accounts' = [_accounts EXCEPT ![account_number] = result.self]
        /\ last' = Call("overdraft_limit", <<account_number, value>>, result.ret, 0)
        /\ UNCHANGED <<_customers, customer_file, account_file, interest_runs>>

SetInterestRate ==
    \E n \in DOMAIN _accounts, value \in InterestRates :
        /\ IsSavings(_accounts[n])
        /\ set_interest_rate(n, value)
        /\ Track

SetOverdraftLimit ==
    \E n \in DOMAIN _accounts, value \in OverdraftLimits :
        /\ ~IsSavings(_accounts[n])
        /\ set_overdraft_limit(n, value)
        /\ Track

NextParams ==
    \/ AddCustomer(OneCustomer)
    \/ RemoveCustomer(OneCustomer)
    \/ CreateAccount(OneCustomer, TypesAndKwargs, UnitAmounts)
    \/ Deposit(UnitAmounts)
    \/ Withdraw(UnitAmounts)
    \/ TransferFunds(UnitAmounts)
    \/ ApplyAllInterest
    \/ ClearAllData
    \/ SetInterestRate
    \/ SetOverdraftLimit

SpecParams == InitParams /\ [][NextParams]_vars

----------------------------------------------------------------------------
(* SpecLoad: a Bank constructed on any of the records, complete or not.     *)

NextLoad ==
    \/ Constructed /\ AddCustomer(OneCustomer)
    \/ Constructed /\ RemoveCustomer(OneCustomer)
    \/ Constructed /\ CreateAccount(OneCustomer, DefaultKinds, UnitAmounts)
    \/ Constructed /\ Deposit(UnitAmounts)
    \/ Constructed /\ Withdraw(UnitAmounts)
    \/ Constructed /\ TransferFunds(UnitAmounts)
    \/ Constructed /\ ApplyAllInterest
    \/ Constructed /\ ClearAllData

SpecLoad == InitLoad /\ [][NextLoad]_vars

----------------------------------------------------------------------------
(* SpecHistory: Spec with the history of every customer_id watched.         *)

\* Bank.__init__, with the history of every customer_id watched
InitHistory ==
    \E record \in InitialRecords :
        /\ customer_file = record[1]
        /\ account_file = record[2]
        /\ _customers = _load_data(record[1], record[2]).customers
        /\ _accounts = _load_data(record[1], record[2]).accounts
        /\ interest_runs = 0
        /\ last = Call("__init__", <<>>, "None", 0)
        /\ created = [cid \in CustomerIds |-> "never"]

NextHistory ==
    \/ AddCustomer(CustomerIds)
    \/ RemoveCustomer(CustomerIds)
    \/ CreateAccount(CustomerIds, DefaultKinds, UnitAmounts)
    \/ Deposit(UnitAmounts)
    \/ Withdraw(UnitAmounts)
    \/ TransferFunds(UnitAmounts)
    \/ ApplyAllInterest
    \/ ClearAllData

SpecHistory == InitHistory /\ [][NextHistory]_vars

----------------------------------------------------------------------------
(* SpecAlias: a caller that keeps the objects the Bank handed out or was    *)
(* given, and calls their methods.  get_all_accounts, get_customer_accounts *)
(* and create_account return the Account objects of _accounts, and          *)
(* get_all_customers the Customer objects of _customers, which are the      *)
(* objects passed to add_customer.                                          *)

\* account.deposit(amount) on an account the Bank returned; nothing is saved
caller_deposit(account_number, amount) ==
    LET result == Account_deposit(_accounts[account_number], amount)
    IN  /\ _accounts' = [_accounts EXCEPT ![account_number] = result.self]
        /\ last' = Call("Account.deposit", <<account_number, amount>>,
                        IF result.ret THEN "True" ELSE "False", 0)
        /\ UNCHANGED <<_customers, customer_file, account_file, interest_runs>>

\* customer.add_account_number(n) on a customer the Bank holds; nothing is saved
caller_add_account_number(customer_id, account_number) ==
    /\ _customers' = [_customers EXCEPT ![customer_id] =
                         Customer_add_account_number(@, account_number)]
    /\ last' = Call("Customer.add_account_number", <<customer_id, account_number>>,
                    "None", 0)
    /\ UNCHANGED <<_accounts, customer_file, account_file, interest_runs>>

\* account.withdraw(amount) on an account the Bank returned; nothing is saved
caller_withdraw(account_number, amount) ==
    LET result == Account_withdraw(_accounts[account_number], amount)
    IN  /\ _accounts' = [_accounts EXCEPT ![account_number] = result.self]
        /\ last' = Call("Account.withdraw", <<account_number, amount>>,
                        IF result.ret THEN "True" ELSE "False", 0)
        /\ UNCHANGED <<_customers, customer_file, account_file, interest_runs>>

\* customer.remove_account_number(n) on a customer the Bank holds; nothing is saved
caller_remove_account_number(customer_id, account_number) ==
    /\ _customers' = [_customers EXCEPT ![customer_id] =
                         Customer_remove_account_number(@, account_number)]
    /\ last' = Call("Customer.remove_account_number", <<customer_id, account_number>>,
                    "None", 0)
    /\ UNCHANGED <<_accounts, customer_file, account_file, interest_runs>>

\* customer.address = value on a customer the Bank holds; nothing is saved
caller_set_address(customer_id, value) ==
    /\ _customers' = [_customers EXCEPT ![customer_id] =
                         Customer_address_setter(@, value)]
    /\ last' = Call("Customer.address", <<customer_id, value>>, "None", 0)
    /\ UNCHANGED <<_accounts, customer_file, account_file, interest_runs>>

\* Addresses a caller may assign
CallerAddresses == Addresses \cup {"2 Side St"}

CallerWithdraw ==
    \E n \in DOMAIN _accounts, amount \in UnitAmounts :
        /\ caller_withdraw(n, amount)
        /\ Track

CallerRemoveAccountNumber ==
    \E cid \in DOMAIN _customers, n \in AccountNumbers :
        /\ caller_remove_account_number(cid, n)
        /\ Track

CallerSetAddress ==
    \E cid \in DOMAIN _customers, value \in CallerAddresses :
        /\ caller_set_address(cid, value)
        /\ Track

CallerDeposit ==
    \E n \in DOMAIN _accounts, amount \in UnitAmounts :
        /\ _accounts[n]._balance + amount <= MaxBalance * Unit
        /\ caller_deposit(n, amount)
        /\ Track

CallerAddAccountNumber ==
    \E cid \in DOMAIN _customers, n \in AccountNumbers :
        /\ caller_add_account_number(cid, n)
        /\ Track

NextAlias ==
    \/ AddCustomer(OneCustomer)
    \/ RemoveCustomer(OneCustomer)
    \/ CreateAccount(OneCustomer, DefaultKinds, UnitAmounts)
    \/ Deposit(UnitAmounts)
    \/ Withdraw(UnitAmounts)
    \/ TransferFunds(UnitAmounts)
    \/ ApplyAllInterest
    \/ ClearAllData
    \/ CallerDeposit
    \/ CallerAddAccountNumber
    \/ CallerRemoveAccountNumber
    \/ CallerSetAddress

SpecAlias == Init /\ [][NextAlias]_vars

\* SpecAliasAccount: the caller keeps accounts only, and also withdraws
NextAliasAccount ==
    \/ AddCustomer(OneCustomer)
    \/ RemoveCustomer(OneCustomer)
    \/ CreateAccount(OneCustomer, DefaultKinds, UnitAmounts)
    \/ Deposit(UnitAmounts)
    \/ Withdraw(UnitAmounts)
    \/ TransferFunds(UnitAmounts)
    \/ ApplyAllInterest
    \/ ClearAllData
    \/ CallerDeposit
    \/ CallerWithdraw

SpecAliasAccount == Init /\ [][NextAliasAccount]_vars

----------------------------------------------------------------------------
(* SpecWrite: one customer on storage where a file may become read-only, so *)
(* that _save_data raises before the first document is written, or after    *)
(* the customer document and before the account document.                   *)

\* The environment takes the write permission of one of the two files away
MakeReadOnly ==
    /\ \E which \in {"customer_file", "account_file"} :
           /\ customer_file' = IF which = "customer_file"
                               THEN [customer_file EXCEPT !.writable = FALSE]
                               ELSE customer_file
           /\ account_file' = IF which = "account_file"
                              THEN [account_file EXCEPT !.writable = FALSE]
                              ELSE account_file
    /\ ~SaveRaises
    /\ last' = Call("chmod", <<>>, "None", 0)
    /\ UNCHANGED <<_customers, _accounts, interest_runs, created>>

NextWrite ==
    \/ AddCustomer(OneCustomer)
    \/ RemoveCustomer(OneCustomer)
    \/ CreateAccount(OneCustomer, DefaultKinds, UnitAmounts)
    \/ Deposit(UnitAmounts)
    \/ Withdraw(UnitAmounts)
    \/ TransferFunds(UnitAmounts)
    \/ ApplyAllInterest
    \/ ClearAllData
    \/ MakeReadOnly

SpecWrite == Init /\ [][NextWrite]_vars

----------------------------------------------------------------------------
(* SpecEmpty: Spec for a Bank that finds no documents when constructed.     *)

\* Bank.__init__ when neither file exists
InitEmpty ==
    /\ customer_file = AbsentFile
    /\ account_file = AbsentFile
    /\ _customers = _load_data(AbsentFile, AbsentFile).customers
    /\ _accounts = _load_data(AbsentFile, AbsentFile).accounts
    /\ interest_runs = 0
    /\ last = Call("__init__", <<>>, "None", 0)
    /\ created = EmptyDict

NextEmpty ==
    \/ AddCustomer(CustomerIds)
    \/ RemoveCustomer(CustomerIds)
    \/ CreateAccount(CustomerIds, DefaultKinds, UnitAmounts)
    \/ Deposit(UnitAmounts)
    \/ Withdraw(UnitAmounts)
    \/ TransferFunds(UnitAmounts)
    \/ ApplyAllInterest
    \/ ClearAllData

SpecEmpty == InitEmpty /\ [][NextEmpty]_vars

----------------------------------------------------------------------------
(* Properties *)

Balance(accounts, n) == accounts[n]._balance

Store == [customers |-> _customers, accounts |-> _accounts]

\* C1: every savings account held by the store has balance >= 0, in every
\* reachable state.
C1_SavingsNonNegative ==
    \A n \in DOMAIN _accounts :
        IsSavings(_accounts[n]) => Balance(_accounts, n) >= 0

\* C2: every checking account held by the store has
\* balance >= -overdraft_limit, in every reachable state.
C2_CheckingWithinOverdraft ==
    \A n \in DOMAIN _accounts :
        ~IsSavings(_accounts[n]) =>
            Balance(_accounts, n) >= -_accounts[n]._overdraft_limit

\* C3 as stated: a successful transfer_funds(A, B, amount) leaves A with
\* amount less and B with amount more than before, for all A and B; a failed
\* one leaves both balances as they were.
C3_TransferAnyPair ==
    [][last'.op = "transfer_funds" =>
        LET A == last'.args[1]
            B == last'.args[2]
            amount == last'.args[3]
        IN  IF last'.ret = "True"
            THEN /\ Balance(_accounts', A) = Balance(_accounts, A) - amount
                 /\ Balance(_accounts', B) = Balance(_accounts, B) + amount
            ELSE \A n \in {A, B} \cap DOMAIN _accounts :
                     /\ n \in DOMAIN _accounts'
                     /\ Balance(_accounts', n) = Balance(_accounts, n)]_vars

\* C3 amended: a successful transfer_funds(A, B, amount) between two different
\* accounts leaves A with amount less and B with amount more than before; a
\* successful transfer from an account to itself leaves its balance as it
\* was; a failed one leaves both balances as they were.
C3_TransferBalances ==
    [][last'.op = "transfer_funds" =>
        LET A == last'.args[1]
            B == last'.args[2]
            amount == last'.args[3]
        IN  IF last'.ret = "True"
            THEN /\ A \in DOMAIN _accounts /\ B \in DOMAIN _accounts
                 /\ DOMAIN _accounts' = DOMAIN _accounts
                 /\ A # B => /\ Balance(_accounts', A) = Balance(_accounts, A) - amount
                             /\ Balance(_accounts', B) = Balance(_accounts, B) + amount
                 /\ A = B => Balance(_accounts', A) = Balance(_accounts, A)
            ELSE \A n \in {A, B} \cap DOMAIN _accounts :
                     /\ n \in DOMAIN _accounts'
                     /\ Balance(_accounts', n) = Balance(_accounts, n)]_vars

C3_Witness ==
    /\ last.op = "transfer_funds"
    /\ last.ret = "True"
    /\ last.args[1] # last.args[2]

StoreOperations ==
    {"add_customer", "remove_customer", "create_account", "deposit", "withdraw",
     "transfer_funds", "apply_all_interest", "clear_all_data"}

\* C4: whenever a store operation has returned, a fresh Bank loaded from the
\* two documents holds exactly the customers and the accounts of the store in
\* memory.
C4_DurableInSync ==
    last.op \in StoreOperations =>
        _load_data(customer_file, account_file) = Store

C4_Witness ==
    /\ last.op = "create_account"
    /\ last.saves = 1
    /\ last.ret \in DOMAIN _accounts
    /\ Cardinality(DOMAIN _accounts) = 2
    /\ \E n \in DOMAIN _accounts : IsSavings(_accounts[n])

FailingOperations ==
    {"add_customer", "remove_customer", "create_account", "deposit", "withdraw",
     "transfer_funds"}

\* C5: when add_customer, remove_customer, create_account, deposit, withdraw
\* or transfer_funds returns its failure indicator (False, or None for
\* create_account), the customers and accounts in memory and the two documents
\* are what they were before the call, and _save_data was not called.
C5_FailureChangesNothing ==
    [][(last'.op \in FailingOperations /\ last'.ret \in {"False", "None"}) =>
        /\ UNCHANGED <<_customers, _accounts, customer_file, account_file>>
        /\ last'.saves = 0]_vars

C5_Witness ==
    /\ last.op = "withdraw"
    /\ last.ret = "False"
    /\ last.args[1] \in DOMAIN _accounts
    /\ last.args[2] > 0

\* C6: a successful create_account returns an account whose number was not a
\* key of _accounts before; the store then holds exactly one account more, and
\* every account it held before is unchanged.
C6_FreshAccountNumber ==
    [][(last'.op = "create_account" /\ last'.ret # "None") =>
        /\ last'.ret \notin DOMAIN _accounts
        /\ Cardinality(DOMAIN _accounts') = Cardinality(DOMAIN _accounts) + 1
        /\ \A n \in DOMAIN _accounts :
               n \in DOMAIN _accounts' /\ _accounts'[n] = _accounts[n]]_vars

\* C7: in every state between operations, every number in every customer's
\* _account_numbers is the number of an account held by the store.
C7_ReferencesExist ==
    \A cid \in DOMAIN _customers :
        \A i \in 1..Len(_customers[cid]._account_numbers) :
            _customers[cid]._account_numbers[i] \in DOMAIN _accounts

C7_Witness ==
    /\ last.op = "create_account"
    /\ \E cid \in DOMAIN _customers : Len(_customers[cid]._account_numbers) = 2

\* C8: no account number is in the _account_numbers of two different
\* customers, and none is twice in the _account_numbers of one customer.
C8_ExclusiveOwnership ==
    /\ \A c1 \in DOMAIN _customers, c2 \in DOMAIN _customers :
           c1 # c2 =>
               \A i \in 1..Len(_customers[c1]._account_numbers) :
                   ~InSeq(_customers[c1]._account_numbers[i],
                          _customers[c2]._account_numbers)
    /\ \A c \in DOMAIN _customers :
           \A i, j \in 1..Len(_customers[c]._account_numbers) :
               i # j => _customers[c]._account_numbers[i]
                            # _customers[c]._account_numbers[j]

\* C9: remove_customer(id) returns True exactly when the customer is in the
\* store and has no account numbers; then the customer is gone, every other
\* customer and every account is unchanged; and a customer that is not in the
\* store enters it by add_customer only.
C9_RemoveCustomer ==
    [][/\ last'.op = "remove_customer" =>
            LET id == last'.args[1]
            IN  /\ last'.ret = "True" <=>
                       /\ id \in DOMAIN _customers
                       /\ Len(_customers[id]._account_numbers) = 0
                /\ last'.ret = "True" =>
                       /\ DOMAIN _customers' = DOMAIN _customers \ {id}
                       /\ \A other \in DOMAIN _customers' :
                              _customers'[other] = _customers[other]
                       /\ _accounts' = _accounts
       /\ \A id \in DOMAIN _customers' \ DOMAIN _customers :
              last'.op = "add_customer"]_vars

C9_Witness ==
    /\ last.op = "remove_customer"
    /\ last.ret = "True"
    /\ \E other \in DOMAIN _customers : Len(_customers[other]._account_numbers) > 0

\* The store with every customer reference that names no account dropped
WithoutDanglingReferences(store) ==
    [customers |->
         [cid \in DOMAIN store.customers |->
             [store.customers[cid] EXCEPT !._account_numbers =
                 SelectSeq(@, LAMBDA n : n \in DOMAIN store.accounts)]],
     accounts |-> store.accounts]

\* C10: saving a reachable store and loading the two documents into a fresh
\* Bank gives the same customers (ids, names, addresses, account numbers in
\* the same order) and the same accounts (numbers, holders, kinds, balances,
\* interest rate or overdraft limit), but for customer references that name no
\* account, which are dropped.
C10_RoundTrip ==
    LET saved == _save_data(_customers, _accounts)
    IN  _load_data(saved.customer_file, saved.account_file)
            = WithoutDanglingReferences(Store)

C10_Witness ==
    /\ last.saves = 1
    /\ \E n \in DOMAIN _accounts : IsSavings(_accounts[n]) /\ _accounts[n]._interest_rate = 50
    /\ \E n \in DOMAIN _accounts :
           ~IsSavings(_accounts[n]) /\ _accounts[n]._overdraft_limit > 0
    /\ \E cid \in DOMAIN _customers : Len(_customers[cid]._account_numbers) = 2


\* C11: for both account kinds, deposit(n, amount) with amount <= 0 returns
\* False and leaves every balance as it was; with amount > 0 on an account of
\* the store it returns True and that balance is amount higher.
C11_Deposit ==
    [][last'.op = "deposit" =>
        LET n == last'.args[1]
            amount == last'.args[2]
        IN  /\ amount <= 0 => /\ last'.ret = "False"
                              /\ _accounts' = _accounts
            /\ (amount > 0 /\ n \in DOMAIN _accounts) =>
                   /\ last'.ret = "True"
                   /\ n \in DOMAIN _accounts'
                   /\ Balance(_accounts', n) = Balance(_accounts, n) + amount]_vars

C11_Witness ==
    /\ last.op = "deposit"
    /\ last.ret = "True"
    /\ last.args[1] \in DOMAIN _accounts
    /\ ~IsSavings(_accounts[last.args[1]])
    /\ \E n \in DOMAIN _accounts : IsSavings(_accounts[n])

\* The withdrawal rule of the account kinds
MayWithdraw(account, amount) ==
    /\ amount > 0
    /\ IF IsSavings(account)
       THEN amount <= account._balance
       ELSE account._balance - amount >= -account._overdraft_limit

\* C12: withdraw(n, amount) on an account of the store returns True exactly
\* when amount > 0 and, for savings, amount <= balance, or, for checking,
\* balance - amount >= -overdraft_limit; then the balance is amount lower;
\* when it returns False the balance is as it was.
C12_Withdraw ==
    [][(last'.op = "withdraw" /\ last'.args[1] \in DOMAIN _accounts) =>
        LET n == last'.args[1]
            amount == last'.args[2]
        IN  /\ last'.ret = "True" <=> MayWithdraw(_accounts[n], amount)
            /\ n \in DOMAIN _accounts'
            /\ last'.ret = "True" =>
                   Balance(_accounts', n) = Balance(_accounts, n) - amount
            /\ last'.ret # "True" =>
                   Balance(_accounts', n) = Balance(_accounts, n)]_vars

C12_Witness ==
    /\ last.op = "withdraw"
    /\ last.ret = "True"
    /\ last.args[1] \in DOMAIN _accounts
    /\ ~IsSavings(_accounts[last.args[1]])
    /\ Balance(_accounts, last.args[1]) = -_accounts[last.args[1]]._overdraft_limit
    /\ Balance(_accounts, last.args[1]) < 0

\* C13: apply_all_interest sets the balance of every savings account to
\* balance + balance * interest_rate, leaves every checking account as it
\* was, calls _save_data once if the store holds a savings account, and
\* changes and writes nothing if it holds none.
C13_ApplyAllInterest ==
    [][last'.op = "apply_all_interest" =>
        LET savings == {n \in DOMAIN _accounts : IsSavings(_accounts[n])}
        IN  /\ DOMAIN _accounts' = DOMAIN _accounts
            /\ \A n \in savings :
                   _accounts'[n] =
                       [_accounts[n] EXCEPT !._balance =
                           @ + (@ * _accounts[n]._interest_rate) \div 100]
            /\ \A n \in DOMAIN _accounts \ savings : _accounts'[n] = _accounts[n]
            /\ _customers' = _customers
            /\ IF savings # {}
               THEN /\ last'.saves = 1
                    /\ customer_file' = _save_data(_customers', _accounts').customer_file
                    /\ account_file' = _save_data(_customers', _accounts').account_file
               ELSE /\ last'.saves = 0
                    /\ UNCHANGED <<_accounts, customer_file, account_file>>]_vars

C13_Witness ==
    /\ last.op = "apply_all_interest"
    /\ last.saves = 1
    /\ \E n \in DOMAIN _accounts :
           /\ IsSavings(_accounts[n])
           /\ _accounts[n]._interest_rate = 50
           /\ Balance(_accounts, n) > 1 * Unit
    /\ \E n \in DOMAIN _accounts : ~IsSavings(_accounts[n])


\* C14: clear_all_data leaves _customers and _accounts empty whether or not
\* the files could be deleted; it returns True or False, never an exception;
\* when it returns True neither document exists afterwards, and it returns
\* False exactly when a removal raised, which leaves a file that existed
\* before in place.
C14_ClearAllData ==
    [][last'.op = "clear_all_data" =>
        /\ _customers' = EmptyDict
        /\ _accounts' = EmptyDict
        /\ last'.ret \in {"True", "False"}
        /\ last'.ret = "True" => ~customer_file'.exists /\ ~account_file'.exists
        /\ last'.ret = "False" =>
               \/ customer_file.exists /\ customer_file' = customer_file
               \/ account_file.exists /\ account_file' = account_file]_vars

C14_Witness ==
    /\ last.op = "clear_all_data"
    /\ last.ret = "False"
    /\ _customers = EmptyDict
    /\ _accounts = EmptyDict
    /\ ~customer_file.exists
    /\ account_file.exists
    /\ account_file.data # EmptyDict


\* C15: create_account returns None exactly when customer_id is not in the
\* store or the lower-cased account_type is neither savings nor checking;
\* otherwise the store holds one account more, the returned account has the
\* given holder, kind and initial balance, its number is appended to that
\* customer's _account_numbers and every other customer is unchanged, and the
\* files hold the new store.
C15_CreateAccount ==
    [][last'.op = "create_account" =>
        LET customer_id == last'.args[1]
            account_type == Lower(last'.args[2])
            initial_balance == last'.args[3]
            number == last'.ret
            accepted == /\ customer_id \in DOMAIN _customers
                        /\ account_type \in {"savings", "checking"}
        IN  /\ number = "None" <=> ~accepted
            /\ accepted =>
                 /\ number \in DOMAIN _accounts'
                 /\ Cardinality(DOMAIN _accounts') = Cardinality(DOMAIN _accounts) + 1
                 /\ _accounts'[number]._account_holder_id = customer_id
                 /\ IsSavings(_accounts'[number]) <=> account_type = "savings"
                 /\ _accounts'[number]._balance = initial_balance
                 /\ DOMAIN _customers' = DOMAIN _customers
                 /\ _customers'[customer_id]._account_numbers =
                        Append(_customers[customer_id]._account_numbers, number)
                 /\ \A cid \in DOMAIN _customers \ {customer_id} :
                        _customers'[cid] = _customers[cid]
                 /\ customer_file' = _save_data(_customers', _accounts').customer_file
                 /\ account_file' = _save_data(_customers', _accounts').account_file]_vars


\* C16: add_customer returns True exactly when the customer_id was not a key
\* of _customers; when it returns False the store is as before, so the record
\* already held keeps its name, address and account numbers; when it returns
\* True the store holds the new customer under its id, and every other
\* customer and every account is unchanged.
C16_AddCustomer ==
    [][last'.op = "add_customer" =>
        LET customer == last'.args[1]
            customer_id == customer._customer_id
        IN  /\ last'.ret = "True" <=> customer_id \notin DOMAIN _customers
            /\ _accounts' = _accounts
            /\ customer_id \in DOMAIN _customers => _customers' = _customers
            /\ customer_id \notin DOMAIN _customers =>
                 /\ DOMAIN _customers' = DOMAIN _customers \cup {customer_id}
                 /\ _customers'[customer_id] = customer
                 /\ \A cid \in DOMAIN _customers : _customers'[cid] = _customers[cid]]_vars

C16_Witness ==
    /\ last.op = "add_customer"
    /\ last.ret = "False"
    /\ _customers[last.args[1]._customer_id] # last.args[1]
    /\ _customers[last.args[1]._customer_id]._account_numbers # <<>>
    /\ Cardinality(DOMAIN _customers) = 2


\* C17: a negative interest_rate or overdraft_limit never makes a construction
\* fail, neither in create_account nor in _load_data: the account exists and
\* has the default of its kind (0.01, 0.0); the setter answers a negative
\* value with ValueError and leaves every account as it was; and in every
\* state every savings account has a rate >= 0 and every checking account a
\* limit >= 0.
C17_NonNegative ==
    \A n \in DOMAIN _accounts :
        IF IsSavings(_accounts[n])
        THEN _accounts[n]._interest_rate >= 0
        ELSE _accounts[n]._overdraft_limit >= 0

C17_Loaded ==
    last.op = "__init__" =>
        \A n \in DOMAIN account_file.data :
            LET d == account_file.data[n]
            IN  /\ ("type" \in DOMAIN d /\ d.type = "savings"
                        /\ "interest_rate" \in DOMAIN d /\ d.interest_rate < 0) =>
                     /\ n \in DOMAIN _accounts
                     /\ _accounts[n]._interest_rate = DefaultInterestRate
                /\ ("type" \in DOMAIN d /\ d.type = "checking"
                        /\ "overdraft_limit" \in DOMAIN d /\ d.overdraft_limit < 0) =>
                     /\ n \in DOMAIN _accounts
                     /\ _accounts[n]._overdraft_limit = DefaultOverdraftLimit

C17_Created ==
    (last'.op = "create_account" /\ last'.args[1] \in DOMAIN _customers) =>
        LET kind == Lower(last'.args[2])
            kwargs == last'.args[4]
        IN  /\ (kind = "savings" /\ "interest_rate" \in DOMAIN kwargs
                    /\ kwargs.interest_rate < 0) =>
                 /\ last'.ret \in DOMAIN _accounts'
                 /\ _accounts'[last'.ret]._interest_rate = DefaultInterestRate
            /\ (kind = "checking" /\ "overdraft_limit" \in DOMAIN kwargs
                    /\ kwargs.overdraft_limit < 0) =>
                 /\ last'.ret \in DOMAIN _accounts'
                 /\ _accounts'[last'.ret]._overdraft_limit = DefaultOverdraftLimit

C17_Set ==
    (last'.op \in {"interest_rate", "overdraft_limit"} /\ last'.args[2] < 0) =>
        /\ last'.ret = "ValueError"
        /\ _accounts' = _accounts

C17_ClampedOrRejected ==
    /\ [](C17_NonNegative /\ C17_Loaded)
    /\ [][C17_Created /\ C17_Set]_vars

C17_Witness ==
    /\ last.op = "interest_rate"
    /\ last.ret = "ValueError"
    /\ last.args[1] \in DOMAIN account_file.data
    /\ "interest_rate" \in DOMAIN account_file.data[last.args[1]]
    /\ account_file.data[last.args[1]].interest_rate < 0
    /\ _accounts[last.args[1]]._interest_rate = DefaultInterestRate


\* A well-formed durable record: two JSON documents in which every customer
\* entry has its id, name and address and every account entry its number,
\* holder and balance.
WellFormed ==
    /\ customer_file.exists /\ customer_file.parsable
    /\ account_file.exists /\ account_file.parsable
    /\ \A cid \in DOMAIN customer_file.data :
           {"customer_id", "name", "address"} \subseteq DOMAIN customer_file.data[cid]
    /\ \A n \in DOMAIN account_file.data :
           {"account_number", "account_holder_id", "balance"}
               \subseteq DOMAIN account_file.data[n]

NoDuplicates(s) == \A i, j \in 1..Len(s) : s[i] = s[j] => i = j

FirstIndex(s, x) == CHOOSE i \in 1..Len(s) : s[i] = x /\ \A j \in 1..(i - 1) : s[j] # x

\* The account entries of the document whose type is savings or checking
RecognizedEntries ==
    {n \in DOMAIN account_file.data :
        /\ "type" \in DOMAIN account_file.data[n]
        /\ account_file.data[n].type \in {"savings", "checking"}}

\* The references recorded for a customer
RecordedReferences(cid) ==
    IF "account_numbers" \in DOMAIN customer_file.data[cid]
    THEN customer_file.data[cid].account_numbers
    ELSE <<>>

\* C20, as stated: after Bank.__init__ on a well-formed record nothing was
\* raised, the accounts in memory are exactly the entries whose type is savings
\* or checking, and every customer holds exactly the sub-sequence of its
\* recorded references that name a loaded account.
C20_ExactSubsequence ==
    (last.op = "__init__" /\ WellFormed) =>
        /\ last.ret = "None"
        /\ DOMAIN _accounts = RecognizedEntries
        /\ DOMAIN _customers = DOMAIN customer_file.data
        /\ \A cid \in DOMAIN _customers :
               _customers[cid]._account_numbers =
                   SelectSeq(RecordedReferences(cid), LAMBDA n : n \in RecognizedEntries)

\* C20, amended: after Bank.__init__ on a well-formed record nothing was
\* raised, the accounts in memory are exactly the entries whose type is savings
\* or checking, every customer of the document is in memory, and every customer
\* holds each recorded reference that names a loaded account exactly once, in
\* the order of first occurrence: the sub-sequence of the first occurrences.
C20_LoadRepair ==
    (last.op = "__init__" /\ WellFormed) =>
        /\ last.ret = "None"
        /\ DOMAIN _accounts = RecognizedEntries
        /\ DOMAIN _customers = DOMAIN customer_file.data
        /\ \A cid \in DOMAIN _customers :
               LET refs == RecordedReferences(cid)
                   numbers == _customers[cid]._account_numbers
               IN  /\ NoDuplicates(numbers)
                   /\ {numbers[i] : i \in 1..Len(numbers)} =
                          {refs[i] : i \in 1..Len(refs)} \cap RecognizedEntries
                   /\ \A i, j \in 1..Len(numbers) :
                          i < j => FirstIndex(refs, numbers[i]) < FirstIndex(refs, numbers[j])

C20_Witness ==
    /\ last.op = "__init__"
    /\ WellFormed
    /\ "account_numbers" \in DOMAIN customer_file.data["C1"]
    /\ customer_file.data["C1"].account_numbers =
           <<"999999999999", "100000000000", "999999999999">>
    /\ DOMAIN account_file.data = AccountNumbers
    /\ \A n \in AccountNumbers : "type" \in DOMAIN account_file.data[n]
    /\ account_file.data["100000000000"].type = "Savings"
    /\ account_file.data["999999999999"].type = "checking"
    /\ DOMAIN _accounts = {"999999999999"}
    /\ _customers["C1"]._account_numbers = <<"999999999999">>


\* C18, as stated: once create_account has returned an account for customer
\* c, every later remove_customer(c) returns False, whatever was called in
\* between.
C18_PermanentlyBlocked ==
    [][(/\ last'.op = "remove_customer"
        /\ last'.args[1] \in DOMAIN created
        /\ created[last'.args[1]] # "never") => last'.ret = "False"]_vars

\* C18, amended: once create_account has returned an account for customer c,
\* every later remove_customer(c) returns False as long as clear_all_data has
\* not been called since.
C18_BlockedUntilCleared ==
    [][(/\ last'.op = "remove_customer"
        /\ last'.args[1] \in DOMAIN created
        /\ created[last'.args[1]] = "since_clear") => last'.ret = "False"]_vars

C18_Witness ==
    /\ last.op = "remove_customer"
    /\ last.ret = "False"
    /\ created[last.args[1]] = "since_clear"
    /\ last.args[1] \in DOMAIN _customers
    /\ Len(_customers[last.args[1]]._account_numbers) = 1
    /\ _accounts[_customers[last.args[1]]._account_numbers[1]]._account_holder_id
           # last.args[1]


\* C19: a caller that calls a method (deposit, withdraw, a setter) on an
\* account the Bank returned, or a method (add_account_number,
\* remove_account_number, the address setter) on a customer it passed to
\* add_customer or got from the Bank, works on a snapshot: _customers and
\* _accounts are the same after the call as before.
CallerOperations ==
    {"Account.deposit", "Account.withdraw", "interest_rate", "overdraft_limit",
     "Customer.add_account_number", "Customer.remove_account_number",
     "Customer.address"}

C19_Snapshots ==
    [][last'.op \in CallerOperations =>
        /\ _customers' = _customers
        /\ _accounts' = _accounts]_vars


\* C21: when _save_data raises in a mutating operation, before the first
\* document is written or between the two, the caller gets the error, and
\* _customers, _accounts and both files are the same after the call as
\* before, so that loading the files gives what it gave before.
C21_AtomicSave ==
    [][last'.ret = "OSError" =>
        /\ last'.saves > 0
        /\ _customers' = _customers
        /\ _accounts' = _accounts
        /\ customer_file' = customer_file
        /\ account_file' = account_file
        /\ _load_data(customer_file', account_file') =
               _load_data(customer_file, account_file)]_vars


\* C22: in every reachable state, for every pair of accounts and every amount
\* that passes the preconditions of transfer_funds, a withdrawal from the
\* source that succeeds is followed by a deposit into the destination that
\* succeeds; and every transfer_funds call whose withdrawal can succeed
\* returns True, with the destination credited in memory and in the file.
C22_DepositNeverFails ==
    \A A \in DOMAIN _accounts, B \in DOMAIN _accounts, amount \in Amounts :
        LET w == Account_withdraw(_accounts[A], amount)
            withdrawn == [_accounts EXCEPT ![A] = w.self]
        IN  (amount > 0 /\ w.ret) => Account_deposit(withdrawn[B], amount).ret

C22_Credited ==
    (/\ last'.op = "transfer_funds"
     /\ last'.args[1] \in DOMAIN _accounts
     /\ last'.args[2] \in DOMAIN _accounts
     /\ MayWithdraw(_accounts[last'.args[1]], last'.args[3])) =>
        LET A == last'.args[1]
            B == last'.args[2]
            amount == last'.args[3]
        IN  /\ last'.ret = "True"
            /\ A # B => Balance(_accounts', B) = Balance(_accounts, B) + amount
            /\ account_file' = _save_data(_customers', _accounts').account_file
            /\ A # B => account_file'.data[B].balance = Balance(_accounts, B) + amount

C22_NoCompensation ==
    /\ []C22_DepositNeverFails
    /\ [][C22_Credited]_vars

C22_Witness ==
    /\ last.op = "transfer_funds"
    /\ last.ret = "True"
    /\ last.args[1] # last.args[2]
    /\ IsSavings(_accounts[last.args[2]])
    /\ Balance(_accounts, last.args[2]) = last.args[3]
    /\ account_file.data[last.args[2]].balance = last.args[3]


\* C23: every transfer_funds call, whether it returns True or False and
\* whatever the two account numbers are (the same number twice included),
\* leaves the sum of the balances of all accounts as it was, and changes the
\* balance of no account other than the two named.
RECURSIVE SumBalances(_, _)
SumBalances(accounts, numbers) ==
    IF numbers = {}
    THEN 0
    ELSE LET n == CHOOSE x \in numbers : TRUE
         IN  Balance(accounts, n) + SumBalances(accounts, numbers \ {n})

C23_Conservation ==
    [][last'.op = "transfer_funds" =>
        /\ DOMAIN _accounts' = DOMAIN _accounts
        /\ SumBalances(_accounts', DOMAIN _accounts') =
               SumBalances(_accounts, DOMAIN _accounts)
        /\ \A n \in DOMAIN _accounts \ {last'.args[1], last'.args[2]} :
               Balance(_accounts', n) = Balance(_accounts, n)]_vars

C23_Witness ==
    /\ last.op = "transfer_funds"
    /\ last.ret = "True"
    /\ last.args[1] = last.args[2]
    /\ Cardinality(DOMAIN _accounts) = 2
    /\ \E n \in DOMAIN _accounts : Balance(_accounts, n) < 0


\* C24: in every state a Bank that started with an empty store reaches by its
\* operations, the holder of every account is a customer of the store, and
\* that customer's _account_numbers contains the number of the account.
C24_NoOrphanAccount ==
    \A n \in DOMAIN _accounts :
        /\ _accounts[n]._account_holder_id \in DOMAIN _customers
        /\ InSeq(n, _customers[_accounts[n]._account_holder_id]._account_numbers)

C24_Witness ==
    /\ last.op = "remove_customer"
    /\ last.ret = "False"
    /\ DOMAIN _customers = CustomerIds
    /\ DOMAIN _accounts = AccountNumbers
    /\ \A n \in DOMAIN _accounts : _accounts[n]._account_holder_id = last.args[1]
    /\ \E cid \in DOMAIN _customers :
           /\ cid # last.args[1]
           /\ _customers[cid]._account_numbers # <<>>


\* C25: deposit, withdraw, transfer_funds and apply_all_interest leave the
\* customers and their account numbers, the set of accounts, and every
\* account's number, holder, class, interest rate and overdraft limit as they
\* were: an account differs from what it was before the call in its balance
\* at most.  deposit and withdraw on account n leave every other account as
\* it was.
BalanceOperations == {"deposit", "withdraw", "transfer_funds", "apply_all_interest"}

C25_OnlyBalances ==
    [][last'.op \in BalanceOperations =>
        /\ _customers' = _customers
        /\ DOMAIN _accounts' = DOMAIN _accounts
        /\ \A n \in DOMAIN _accounts :
               _accounts'[n] = [_accounts[n] EXCEPT !._balance = Balance(_accounts', n)]
        /\ last'.op \in {"deposit", "withdraw"} =>
               \A n \in DOMAIN _accounts \ {last'.args[1]} :
                   _accounts'[n] = _accounts[n]]_vars

C25_Witness ==
    /\ last.op = "withdraw"
    /\ last.ret = "True"
    /\ DOMAIN _accounts = AccountNumbers
    /\ ~IsSavings(_accounts[last.args[1]])
    /\ _accounts[last.args[1]]._overdraft_limit > 0
    /\ \E n \in DOMAIN _accounts :
           /\ IsSavings(_accounts[n])
           /\ _accounts[n]._interest_rate = 50
           /\ Balance(_accounts, n) > 0
    /\ \E cid \in DOMAIN _customers : Len(_customers[cid]._account_numbers) = 2

====
